---- MODULE Spec2Model ----
(***************************************************************************)
(* Model of consav/newton_raphson.py: the optimizer newton_raphson that    *)
(* create_optimizer returns, and the two derivative estimators num_grad    *)
(* and num_hess.                                                           *)
(*                                                                         *)
(* Numbers.  The code computes in float64.  Here a real number is an       *)
(* integer count of units 1/Scale (fixed point); a product or a quotient   *)
(* is rounded to the nearest unit, sums and differences are exact.  The    *)
(* control flow, the buffers each statement reads and writes, and the      *)
(* order of the arithmetic are those of the source.                        *)
(*                                                                         *)
(* Arrays.  A numpy array is a sequence indexed from 1; the matrix hess is *)
(* a sequence of rows.  A basic slice x[:] on the right of "=" is a view   *)
(* of x (the same buffer), and "buf[:] = ..." copies into buf.             *)
(***************************************************************************)
EXTENDS Integers, Sequences, FiniteSets, TLC

\* ------------------------------------------------------------- bounds
\* units per 1.0 of the fixed-point numbers
Scale == 16
\* max_iter is drawn from 1..MaxIter
MaxIter == 3
\* every coordinate of x0 is an integer point of -XMax..XMax
XMax == 2

\* ------------------------------------------------------- fixed point
\* a / b rounded to the nearest integer (b # 0)
RDiv(a, b) ==
    IF b > 0 THEN (a + (b \div 2)) \div b
             ELSE ((-a) + ((-b) \div 2)) \div (-b)

Mul(a, b) == RDiv(a * b, Scale)

Div(a, b) == RDiv(a * Scale, b)

Abs(a) == IF a < 0 THEN -a ELSE a

\* np.sign
Sign(a) == IF a > 0 THEN 1 ELSE IF a < 0 THEN -1 ELSE 0

\* np.fmax
Fmax(a, b) == IF a >= b THEN a ELSE b

\* the real number k, and the real number p/q, in units
R(k) == k * Scale

Frac(p, q) == RDiv(p * Scale, q)

\* np.zeros(n) and np.zeros((n,n))
Zeros(n) == [k \in 1..n |-> 0]

ZerosMat(n) == [r \in 1..n |-> [c \in 1..n |-> 0]]

\* np.amax(np.abs(a - b))
RECURSIVE AmaxAbsDiffFrom(_, _, _)
AmaxAbsDiffFrom(a, b, k) ==
    IF k > Len(a) THEN 0
    ELSE Fmax(Abs(a[k] - b[k]), AmaxAbsDiffFrom(a, b, k + 1))

AmaxAbsDiff(a, b) == AmaxAbsDiffFrom(a, b, 1)

\* ------------------------------------------------------- objectives
\* The objective obj is the caller's; these are the ones the model runs.
Objectives1 == {"const", "lin", "sq3", "negsq"}

Objectives2 == {"quad2", "prod", "lin2"}

Objectives == Objectives1 \cup Objectives2

Dim(o) == IF o \in Objectives1 THEN 1 ELSE 2

\* obj(x, *args)
Obj(o, x) ==
    CASE o = "const" -> R(1)
      [] o = "lin"   -> x[1]
      [] o = "sq3"   -> Mul(x[1] - R(3), x[1] - R(3))
      [] o = "negsq" -> -Mul(x[1], x[1])
      [] o = "quad2" -> Mul(x[1] - R(1), x[1] - R(1)) + Mul(x[2] - R(2), x[2] - R(2))
      [] o = "prod"  -> Mul(x[1], x[2])
      [] o = "lin2"  -> x[1] + x[2]

\* the minimiser c of the convex quadratics (x - c)^T A (x - c) among them
Quadratics == {"sq3", "quad2"}

Centre(o) == IF o = "sq3" THEN <<R(3)>> ELSE <<R(1), R(2)>>

\* ------------------------------------------------------- estimators
\* step_now = np.fmax(grad_step*xi, grad_step)
StepNow(h, xi) == Fmax(Mul(h, xi), h)

\* num_grad, the loop from coordinate i on.  x is the caller's array and g
\* the output array.  "x_grad = x[:]" binds the local name x_grad to a view
\* of x, so "x_grad[i] = xi + step_now" writes x[i]; the x_grad buffer passed
\* in is never touched.  xi is read from x when the loop reaches i.
RECURSIVE NumGradFrom(_, _, _, _, _, _)
NumGradFrom(o, h, f0, i, x, g) ==
    IF i > Len(x) THEN [x |-> x, grad |-> g]
    ELSE LET xi       == x[i]
             step_now == StepNow(h, xi)
             x_grad   == [x EXCEPT ![i] = xi + step_now]
         IN  NumGradFrom(o, h, f0, i + 1, x_grad,
                         [g EXCEPT ![i] = Div(Obj(o, x_grad) - f0, step_now)])

\* num_grad(obj,x,grad_step,f0,grad,x_grad,*args): the arrays x and grad
\* as the call leaves them
num_grad(o, x, h, f0, g) == NumGradFrom(o, h, f0, 1, x, g)

\* num_hess, the loop from coordinate i on: x_hess[:] = x[:] copies, the
\* nested num_grad works on x_hess and writes grad_hess.
RECURSIVE NumHessFrom(_, _, _, _, _, _, _, _)
NumHessFrom(o, h, g, i, x, hs, xh, gh) ==
    IF i > Len(x) THEN [hess |-> hs, x_hess |-> xh, grad_hess |-> gh]
    ELSE LET xi       == x[i]
             step_now == StepNow(h, xi)
             x_hess   == [x EXCEPT ![i] = xi + step_now]
             f0       == Obj(o, x_hess)
             r        == num_grad(o, x_hess, h, f0, gh)
             hess     == [k \in 1..Len(x) |->
                            [hs[k] EXCEPT ![i] = Div(r.grad[k] - g[k], step_now)]]
         IN  NumHessFrom(o, h, g, i + 1, x, hess, r.x, r.grad)

\* num_hess(obj,x,grad_step,grad,hess,x_grad,x_hess,grad_hess,*args)
num_hess(o, x, h, g, hs, xh, gh) == NumHessFrom(o, h, g, 1, x, hs, xh, gh)

\* ---------------------------------------------------- linear algebra
\* np.linalg.det
Det(H) ==
    IF Len(H) = 1 THEN H[1][1]
    ELSE Mul(H[1][1], H[2][2]) - Mul(H[1][2], H[2][1])

\* an inverse that hands back zeros for a singular matrix instead of raising
LinalgInvSilent(H) ==
    LET det == Det(H) IN
    IF det = 0 THEN [ok |-> TRUE, m |-> ZerosMat(Len(H))]
    ELSE IF Len(H) = 1 THEN [ok |-> TRUE, m |-> << <<Div(R(1), det)>> >>]
    ELSE [ok |-> TRUE,
          m  |-> << <<Div(H[2][2], det), Div(-H[1][2], det)>>,
                    <<Div(-H[2][1], det), Div(H[1][1], det)>> >>]

\* np.linalg.inv: raises LinAlgError on a singular matrix
LinalgInv(H) ==
    LET det == Det(H) IN
    IF det = 0 THEN [ok |-> FALSE, m |-> H]
    ELSE IF Len(H) = 1 THEN [ok |-> TRUE, m |-> << <<Div(R(1), det)>> >>]
    ELSE [ok |-> TRUE,
          m  |-> << <<Div(H[2][2], det), Div(-H[1][2], det)>>,
                    <<Div(-H[2][1], det), Div(H[1][1], det)>> >>]

\* M @ v
RECURSIVE DotFrom(_, _, _)
DotFrom(row, v, k) ==
    IF k > Len(v) THEN 0 ELSE Mul(row[k], v[k]) + DotFrom(row, v, k + 1)

MatVec(M, v) == [r \in 1..Len(v) |-> DotFrom(M[r], v, 1)]

\* d = - np.sign(hess_det)*(np.linalg.inv(hess) @ np.transpose(grad))
Direction(H, g) ==
    LET hess_det == Det(H)
        mv       == MatVec(LinalgInv(H).m, g)
    IN  [r \in 1..Len(g) |-> -(Sign(hess_det) * mv[r])]

VecAdd(a, b) == [k \in 1..Len(a) |-> a[k] + b[k]]

\* 0.5*(a + b)
Midpoint(a, b) == [k \in 1..Len(a) |-> Mul(Frac(1, 2), a[k] + b[k])]

\* ------------------------------------------------- optimizer tests
\* the convergence test without its iteration-cap disjunct
ConvergedNoCap(fn, fm, xn, xm, i, k, tf, tx) ==
    \/ Abs(fn - fm) < tf
    \/ AmaxAbsDiff(xn, xm) < tx

\* the convergence test without its step-size disjunct
ConvergedNoStepTest(fn, fm, xn, xm, i, k, tf, tx) ==
    \/ Abs(fn - fm) < tf
    \/ i >= k - 1

\* line 75: the convergence test of iteration it
Converged(fn, fm, xn, xm, i, k, tf, tx) ==
    \/ Abs(fn - fm) < tf
    \/ AmaxAbsDiff(xn, xm) < tx
    \/ i >= k - 1

\* line 82: worsening, take avg of the last two iterations
Worsening(fn, fm) == fn >= fm

\* the midpoint taken also when it only ties the candidate
ImprovesOrTies(fs, fn) == fs <= fn

\* line 87: the midpoint replaces the candidate
Improves(fs, fn) == fs < fn

\* a monotone acceptance: the candidate is stored only if it is no worse
CommittedIfBetter(xm, fm, xn, fn) ==
    IF fn <= fm THEN [x |-> xn, f |-> fn] ELSE [x |-> xm, f |-> fm]

\* lines 92-93 (and 77-78): the values written to x_min and f_min
Committed(xm, fm, xn, fn) == [x |-> xn, f |-> fn]

\* ------------------------------------------------------------ state
VARIABLES
    obj, x0,                            \* the objective and the call's x0
    max_iter, grad_step, tol_fun, tol_x, \* create_optimizer's arguments
    x_min, x_now, x_grad, x_hess,       \* newton_raphson's arrays
    grad, grad_hess, hess,
    f_min, f_now, it,
    x_step, f_step,                     \* the line search's locals
    pc,                                 \* the statement the call is at
    result,                             \* the returned array
    x_commit, f_prev,                   \* history: the point last committed, f_min before it
    cand_x, cand_f,                     \* history: this iteration's x_min + d and its value
    probes,                             \* history: midpoint evaluations this iteration
    n_est, n_cand                       \* history: estimates and candidate evaluations

vars == <<obj, x0, max_iter, grad_step, tol_fun, tol_x, x_min, x_now, x_grad,
          x_hess, grad, grad_hess, hess, f_min, f_now, it, x_step, f_step, pc,
          result, x_commit, f_prev, cand_x, cand_f, probes, n_est, n_cand>>

config == <<obj, x0, max_iter, grad_step, tol_fun, tol_x>>

arrays == <<x_min, x_now, x_grad, x_hess, grad, grad_hess, hess>>

\* the inputs the model runs
Coordinates == {R(k) : k \in -XMax..XMax}

StartPoints(o) ==
    IF Dim(o) = 1 THEN {<<a>> : a \in Coordinates}
    ELSE {<<a, b>> : a, b \in Coordinates}

GradSteps == {Frac(1, 4), R(1)}

TolFuns == {Frac(1, 16), R(1)}

TolXs == {Frac(1, 16), R(1)}

\* lines 43-52: the call has allocated its arrays
Init ==
    /\ obj \in Objectives
    /\ x0 \in StartPoints(obj)
    /\ max_iter \in 1..MaxIter
    /\ grad_step \in GradSteps
    /\ tol_fun \in TolFuns
    /\ tol_x \in TolXs
    /\ x_min = Zeros(Dim(obj))
    /\ x_now = Zeros(Dim(obj))
    /\ x_grad = Zeros(Dim(obj))
    /\ x_hess = Zeros(Dim(obj))
    /\ grad = Zeros(Dim(obj))
    /\ grad_hess = Zeros(Dim(obj))
    /\ hess = ZerosMat(Dim(obj))
    /\ f_min = 0
    /\ f_now = 0
    /\ it = 0
    /\ x_step = Zeros(Dim(obj))
    /\ f_step = 0
    /\ pc = "start"
    /\ result = <<>>
    /\ x_commit = Zeros(Dim(obj))
    /\ f_prev = 0
    /\ cand_x = Zeros(Dim(obj))
    /\ cand_f = 0
    /\ probes = 0
    /\ n_est = 0
    /\ n_cand = 0

\* lines 54-60: initial values, and the loop is entered (max_iter >= 1)
Start ==
    /\ pc = "start"
    /\ x_min' = x0
    /\ f_min' = Obj(obj, x0)
    /\ x_commit' = x0
    /\ f_prev' = Obj(obj, x0)
    /\ it' = 0
    /\ pc' = "grad"
    /\ UNCHANGED <<config, x_now, x_grad, x_hess, grad, grad_hess, hess, f_now,
                   x_step, f_step, result, cand_x, cand_f, probes, n_est, n_cand>>

\* line 63: num_grad(obj,x_min,grad_step,f_min,grad,x_grad,*args)
Gradient ==
    /\ pc = "grad"
    /\ LET r == num_grad(obj, x_min, grad_step, f_min, grad)
       IN  /\ x_min' = r.x
           /\ grad' = r.grad
    /\ n_est' = n_est + 1
    /\ probes' = 0
    /\ pc' = "hess"
    /\ UNCHANGED <<config, x_now, x_grad, x_hess, grad_hess, hess, f_min, f_now,
                   it, x_step, f_step, result, x_commit, f_prev, cand_x, cand_f,
                   n_cand>>

\* line 64: num_hess(obj,x_min,grad_step,grad,hess,x_grad,x_hess,grad_hess,*args)
Hessian ==
    /\ pc = "hess"
    /\ LET r == num_hess(obj, x_min, grad_step, grad, hess, x_hess, grad_hess)
       IN  /\ hess' = r.hess
           /\ x_hess' = r.x_hess
           /\ grad_hess' = r.grad_hess
    /\ pc' = "dir"
    /\ UNCHANGED <<config, x_min, x_now, x_grad, grad, f_min, f_now, it, x_step,
                   f_step, result, x_commit, f_prev, cand_x, cand_f, probes,
                   n_est, n_cand>>

\* lines 67-68 with a singular hess: np.linalg.inv raises, the call ends
DirectionRaises ==
    /\ pc = "dir"
    /\ ~LinalgInv(hess).ok
    /\ pc' = "raised"
    /\ UNCHANGED <<config, arrays, f_min, f_now, it, x_step, f_step, result,
                   x_commit, f_prev, cand_x, cand_f, probes, n_est, n_cand>>

\* lines 67-72: direction, x_now[:] = x_min[:] + d, f_now = obj(x_now)
Update ==
    /\ pc = "dir"
    /\ LinalgInv(hess).ok
    /\ LET xn == VecAdd(x_min, Direction(hess, grad))
       IN  /\ x_now' = xn
           /\ f_now' = Obj(obj, xn)
           /\ cand_x' = xn
           /\ cand_f' = Obj(obj, xn)
    /\ n_cand' = n_cand + 1
    /\ pc' = "check"
    /\ UNCHANGED <<config, x_min, x_grad, x_hess, grad, grad_hess, hess, f_min,
                   it, x_step, f_step, result, x_commit, f_prev, probes, n_est>>

\* lines 75-79: converged, commit and break
Converge ==
    /\ pc = "check"
    /\ Converged(f_now, f_min, x_now, x_min, it, max_iter, tol_fun, tol_x)
    /\ LET c == Committed(x_min, f_min, x_now, f_now)
       IN  /\ x_min' = c.x
           /\ f_min' = c.f
           /\ x_commit' = c.x
    /\ f_prev' = f_min
    /\ pc' = "done"
    /\ UNCHANGED <<config, x_now, x_grad, x_hess, grad, grad_hess, hess, f_now,
                   it, x_step, f_step, result, cand_x, cand_f, probes, n_est,
                   n_cand>>

\* line 75 false: on to the line search
Continue ==
    /\ pc = "check"
    /\ ~Converged(f_now, f_min, x_now, x_min, it, max_iter, tol_fun, tol_x)
    /\ pc' = "linesearch"
    /\ UNCHANGED <<config, arrays, f_min, f_now, it, x_step, f_step, result,
                   x_commit, f_prev, cand_x, cand_f, probes, n_est, n_cand>>

\* line 82 false: no midpoint
LineSearchSkip ==
    /\ pc = "linesearch"
    /\ ~Worsening(f_now, f_min)
    /\ pc' = "commit"
    /\ UNCHANGED <<config, arrays, f_min, f_now, it, x_step, f_step, result,
                   x_commit, f_prev, cand_x, cand_f, probes, n_est, n_cand>>

\* lines 82-89: the midpoint is evaluated and, if better, taken
LineSearchProbe ==
    /\ pc = "linesearch"
    /\ Worsening(f_now, f_min)
    /\ LET xs == Midpoint(x_min, x_now)
           fs == Obj(obj, xs)
       IN  /\ x_step' = xs
           /\ f_step' = fs
           /\ IF Improves(fs, f_now)
              THEN f_now' = fs /\ x_now' = xs
              ELSE UNCHANGED <<f_now, x_now>>
    /\ probes' = probes + 1
    /\ pc' = "commit"
    /\ UNCHANGED <<config, x_min, x_grad, x_hess, grad, grad_hess, hess, f_min,
                   it, result, x_commit, f_prev, cand_x, cand_f, n_est, n_cand>>

\* lines 91-93, and the loop's next it
Commit ==
    /\ pc = "commit"
    /\ LET c == Committed(x_min, f_min, x_now, f_now)
       IN  /\ x_min' = c.x
           /\ f_min' = c.f
           /\ x_commit' = c.x
    /\ f_prev' = f_min
    /\ it' = it + 1
    /\ pc' = "grad"
    /\ UNCHANGED <<config, x_now, x_grad, x_hess, grad, grad_hess, hess, f_now,
                   x_step, f_step, result, cand_x, cand_f, probes, n_est, n_cand>>

\* line 95: return x_min
Return ==
    /\ pc = "done"
    /\ result' = x_min
    /\ pc' = "returned"
    /\ UNCHANGED <<config, arrays, f_min, f_now, it, x_step, f_step, x_commit,
                   f_prev, cand_x, cand_f, probes, n_est, n_cand>>

Next ==
    \/ Start
    \/ Gradient
    \/ Hessian
    \/ DirectionRaises
    \/ Update
    \/ Converge
    \/ Continue
    \/ LineSearchSkip
    \/ LineSearchProbe
    \/ Commit
    \/ Return

Spec == Init /\ [][Next]_vars

\* ------------------------------------------------------------ claims
\* x with coordinate i moved by its step, all other coordinates as in x
Perturbed(h, x, i) == [x EXCEPT ![i] = x[i] + StepNow(h, x[i])]

\* the forward-difference gradient of the estimator's contract: coordinate
\* i is (f(x + s_i*e_i) - f0) / s_i, each one perturbed from x itself
ForwardGradient(o, h, x, f0) ==
    [i \in 1..Len(x) |->
        Div(Obj(o, Perturbed(h, x, i)) - f0, StepNow(h, x[i]))]

Terminal == {"returned", "raised"}

\* C1: when num_grad returns, every coordinate i of grad is
\* (f(x + s_i*e_i) - f(x)) / s_i with x the array as it was passed in, so
\* no evaluation point carries the perturbations of coordinates before i.
C1_GradientFromBaseline ==
    pc = "hess" => grad = ForwardGradient(obj, grad_step, x_commit, f_min)

\* C2: the call num_grad(obj, x_min, ...) of the loop leaves x_min as it
\* was: after it x_min is still the point committed before it.
C2_InputUntouched ==
    pc = "hess" => x_min = x_commit

\* C3: when num_hess returns, column i of hess is (g_pert - g) / s_i, with
\* g the gradient passed in and g_pert the forward-difference gradient at
\* x + s_i*e_i taken with f(x + s_i*e_i) as baseline.
C3_HessianColumns ==
    pc = "dir" =>
        \A i \in 1..Len(x_min) :
            LET xp     == Perturbed(grad_step, x_min, i)
                g_pert == ForwardGradient(obj, grad_step, xp, Obj(obj, xp))
            IN  \A k \in 1..Len(x_min) :
                    hess[k][i] = Div(g_pert[k] - grad[k], StepNow(grad_step, x_min[i]))

\* C4 as claimed: no run ever ends in a raised error.
C4_NeverRaises ==
    pc # "raised"

\* C4 as amended: a call returns an array of x0's dimension whenever every
\* estimated Hessian has a non-zero determinant; when one is exactly
\* singular the direction computation raises and nothing is returned, and
\* no iteration goes on with a singular Hessian.
C4_SingularRaises ==
    /\ pc = "raised" => Det(hess) = 0 /\ result = <<>>
    /\ pc \in {"check", "linesearch", "commit", "done"} => Det(hess) # 0
    /\ pc = "returned" => Len(result) = Len(x0)

\* the constant objective from any x0: the first Hessian is zero
C4_Witness ==
    pc = "raised" /\ obj = "const" /\ it = 0 /\ hess = ZerosMat(1)

\* the place of a statement within an iteration, and of a state within a run
PcRank(p) ==
    CASE p = "start"      -> 0
      [] p = "grad"       -> 1
      [] p = "hess"       -> 2
      [] p = "dir"        -> 3
      [] p = "check"      -> 4
      [] p = "linesearch" -> 5
      [] p = "commit"     -> 6
      [] p = "done"       -> 7
      [] p \in Terminal   -> 8

Rank == 7 * it + PcRank(pc)

\* C5: with max_iter = k a run makes at most k estimates and k candidate
\* evaluations and its k-th iteration never reaches the line search; every
\* step moves the run forward, so it ends within 7*(k-1) + 8 steps.
C5_IterationCap ==
    [][/\ it' <= max_iter - 1
       /\ n_est' <= max_iter
       /\ n_cand' <= max_iter
       /\ pc' \in {"linesearch", "commit"} => it' < max_iter - 1
       /\ Rank' > Rank]_vars

\* a run of at least three iterations that ended in its max_iter-th one
\* although the objective still changed by tol_fun or more
C5_Witness ==
    /\ pc = "returned"
    /\ max_iter >= 3
    /\ n_est = max_iter
    /\ Abs(cand_f - f_prev) >= tol_fun

\* C6: a run on a convex quadratic (x - c)^T A (x - c) that a tolerance test
\* ended returns a point within tol_x of c in every coordinate.  Stated for
\* the runs whose finite-difference step is small against the tolerance
\* (4*grad_step <= tol_x), where the forward-difference bias alone stays
\* below tol_x.
C6_QuadraticWithinTolX ==
    (/\ pc = "returned"
     /\ obj \in Quadratics
     /\ it < max_iter - 1
     /\ 4 * grad_step <= tol_x) =>
        AmaxAbsDiff(result, Centre(obj)) <= tol_x

\* C7: x_min changes only where a point is stored into it: the initial
\* values and the two commits.  No other step of an iteration moves it.
C7_XMinFixedBetweenCommits ==
    [][x_min' # x_min => pc \in {"start", "check", "commit"}]_vars

\* C8: at the convergence test, if |f_now - f_min| < tol_fun or
\* max|x_now - x_min| < tol_x or it = max_iter - 1, the un-probed candidate
\* is committed and the loop is left; otherwise the iteration goes on.  The
\* array returned is that candidate.
C8_ConvergenceStop ==
    [][/\ pc = "check" =>
            IF \/ Abs(f_now - f_min) < tol_fun
               \/ AmaxAbsDiff(x_now, x_min) < tol_x
               \/ it = max_iter - 1
            THEN /\ pc' = "done"
                 /\ x_min' = cand_x /\ f_min' = cand_f
                 /\ x_now = cand_x /\ f_now = cand_f
                 /\ probes = 0
            ELSE pc' = "linesearch"
       /\ pc = "done" => pc' = "returned" /\ result' = cand_x]_vars

\* a run the step-size test alone ended, before the cap
C8_Witness ==
    /\ pc = "returned"
    /\ result = cand_x
    /\ it < max_iter - 1
    /\ Abs(cand_f - f_prev) >= tol_fun

\* C9: an iteration evaluates the midpoint at most once, and exactly when it
\* did not converge and its candidate is no better than f_min; the midpoint
\* replaces the candidate iff f_step < f_now, else the candidate stays the
\* Newton candidate.  A converged iteration evaluates no midpoint.
C9_LineSearch ==
    /\ probes <= 1
    /\ pc = "commit" =>
        /\ probes = 1 <=> cand_f >= f_min
        /\ probes = 1 => /\ x_step = Midpoint(x_min, cand_x)
                         /\ f_step = Obj(obj, x_step)
        /\ IF probes = 1 /\ f_step < cand_f
           THEN x_now = x_step /\ f_now = f_step
           ELSE x_now = cand_x /\ f_now = cand_f
    /\ pc \in {"check", "linesearch", "done", "returned"} => probes = 0

\* the midpoint was better than a worsening candidate and replaced it
C9_Witness ==
    /\ pc = "commit"
    /\ probes = 1
    /\ f_step < cand_f
    /\ x_now = x_step /\ x_now # cand_x

\* C10: the step that ends a non-terminal iteration stores the final
\* candidate into x_min and f_min whatever its value.
C10_UnconditionalCommit ==
    [][pc = "commit" => x_min' = x_now /\ f_min' = f_now /\ pc' = "grad"]_vars

\* a commit of a candidate worse than the previous f_min, which the
\* midpoint did not improve: f_min went up
C10_Witness ==
    /\ pc = "grad"
    /\ it >= 1
    /\ probes = 1
    /\ f_now = cand_f
    /\ f_min = f_now
    /\ f_min > f_prev

====
